---- MODULE Spec2Model ----
(***************************************************************************)
(* Climate logger (climate_logger.ipynb): the correction functions, the    *)
(* Sensor class, the ClimateDB class and the main sampling loop.           *)
(*                                                                         *)
(* Python floats are modelled in fixed point:                              *)
(*   temperatures  in 1/1000 degree C                                      *)
(*   air and vapor pressures in 1/1000 hPa                                 *)
(*   relative humidities in 1/100 percent                                  *)
(* A failing `assert` is modelled by a result record with ok = FALSE and   *)
(* the assertion's message; the exception propagates to whoever called.    *)
(***************************************************************************)
EXTENDS Integers, Sequences, FiniteSets, TLC

\* ------------------------------------------------------------------------
\* Program constants (fixed point, see above)
\* ------------------------------------------------------------------------
BuckC0 == 10007          \* 1.0007   in 1/10000
BuckC1 == 346            \* 3.46e-6  in 1e-8 (per hPa)
BuckC2 == 61121          \* 6.1121   in 1/10000
BuckC3 == 17502          \* 17.502   in 1/1000
BuckC4 == 240970         \* 240.97   in 1/1000 degree C
BuckTempMin == -20000    \* -20 degree C
BuckTempMax == 50000     \*  50 degree C
a_fit == 8542            \* 0.8542   in 1/10000
b_fit == -9675           \* -9.675   in 1/1000 degree C
HumidityMin == 0         \*   0 %
HumidityMax == 10000     \* 100 %
TemperatureMin == 0      \*  0 degree C
TemperatureMax == 65000  \* 65 degree C
PressureMin == 260000    \*  260 hPa
PressureMax == 1260000   \* 1260 hPa
measurement_interval == 30   \* seconds

\* ------------------------------------------------------------------------
\* math.exp: x in 1/1000, result in 1/100000.  Taylor series summed in
\* fixed point until the term vanishes.
\* ------------------------------------------------------------------------
RECURSIVE ExpSeries(_, _, _, _)
ExpSeries(x, k, term, acc) ==
    IF term = 0 THEN acc
    ELSE ExpSeries(x, k + 1, (term * x) \div (k * 1000), acc + term)

exp(x) == ExpSeries(x, 1, 100000, 0)

\* ------------------------------------------------------------------------
\* Results of a call: a returned value, or a raised AssertionError /
\* AttributeError with its message.  frame names the call site inside
\* ambient_humidity through which the exception passed (traceback).
\* ------------------------------------------------------------------------
Raise(msg) == [ok |-> FALSE, error |-> msg, frame |-> "", value |-> 0]
Return(v)  == [ok |-> TRUE, error |-> "", frame |-> "", value |-> v]

\* ------------------------------------------------------------------------
\* buck_vapor_pressure(air_pressure, temperature)
\* ------------------------------------------------------------------------
buck_vapor_pressure_clamping(air_pressure, temperature) ==
    LET t == IF temperature < BuckTempMin THEN BuckTempMin
             ELSE IF temperature > BuckTempMax THEN BuckTempMax
             ELSE temperature
        p == IF air_pressure > 0 THEN air_pressure ELSE 1
        enhancement_factor == BuckC0 + (BuckC1 * p) \div 10000000
        temperature_exponent == (BuckC3 * t) \div (BuckC4 + t)
        vapor_pressure ==
            ((((enhancement_factor * BuckC2) \div 10000)
                * (exp(temperature_exponent) \div 100)) \div 10000)
    IN  Return(vapor_pressure)

buck_vapor_pressure(air_pressure, temperature) ==
    IF ~(air_pressure > 0)
    THEN Raise("buck_vapor_pressure: negative input air pressure")
    ELSE IF ~(temperature >= BuckTempMin)
    THEN Raise("buck_vapor_pressure: temperature below validity range")
    ELSE IF ~(temperature <= BuckTempMax)
    THEN Raise("buck_vapor_pressure: temperature above validity range")
    ELSE
      LET enhancement_factor == BuckC0 + (BuckC1 * air_pressure) \div 10000000
          temperature_exponent ==
              (BuckC3 * temperature) \div (BuckC4 + temperature)
          vapor_pressure ==
              ((((enhancement_factor * BuckC2) \div 10000)
                  * (exp(temperature_exponent) \div 100)) \div 10000)
      IN  IF ~(vapor_pressure > 0)
          THEN Raise("buck_vapor_pressure: negative output vapor pressure")
          ELSE Return(vapor_pressure)

\* ------------------------------------------------------------------------
\* Corrections
\* ------------------------------------------------------------------------
ambient_temperature_sign_slip(measured_temperature) ==
    (a_fit * measured_temperature) \div 10000 - b_fit

ambient_temperature(measured_temperature) ==
    (a_fit * measured_temperature) \div 10000 + b_fit

ambient_pressure_offset(measured_pressure) == measured_pressure + 1

ambient_pressure(measured_pressure) == measured_pressure

ambient_humidity_swapped_args(measured_humidity, measured_temperature, measured_pressure, ambient_temp, ambient_pres) ==
    LET inside_vapor_pressure ==
            buck_vapor_pressure(measured_temperature, measured_pressure)
        ambient_vapor_pressure ==
            buck_vapor_pressure(ambient_temp, ambient_pres)
    IN  IF ~inside_vapor_pressure.ok
        THEN [inside_vapor_pressure EXCEPT !.frame = "inside_vapor_pressure"]
        ELSE IF ~ambient_vapor_pressure.ok
        THEN [ambient_vapor_pressure EXCEPT !.frame = "ambient_vapor_pressure"]
        ELSE Return((measured_humidity * inside_vapor_pressure.value)
                        \div ambient_vapor_pressure.value)

ambient_humidity(measured_humidity, measured_temperature, measured_pressure, ambient_temp, ambient_pres) ==
    LET inside_vapor_pressure ==
            buck_vapor_pressure(measured_pressure, measured_temperature)
        ambient_vapor_pressure ==
            buck_vapor_pressure(ambient_pres, ambient_temp)
    IN  IF ~inside_vapor_pressure.ok
        THEN [inside_vapor_pressure EXCEPT !.frame = "inside_vapor_pressure"]
        ELSE IF ~ambient_vapor_pressure.ok
        THEN [ambient_vapor_pressure EXCEPT !.frame = "ambient_vapor_pressure"]
        ELSE Return((measured_humidity * inside_vapor_pressure.value)
                        \div ambient_vapor_pressure.value)

\* ------------------------------------------------------------------------
\* class Sensor.  An instance is its attribute dictionary: a function from
\* the names of the attributes assigned so far to their values.
\* ------------------------------------------------------------------------
SetAttr(self, name, v) ==
    [x \in (DOMAIN self) \cup {name} |-> IF x = name THEN v ELSE self[x]]

\* attribute access: AttributeError while the attribute was never assigned
GetAttr(self, name) ==
    IF name \in DOMAIN self THEN Return(self[name])
    ELSE Raise("AttributeError")

\* datetime.utcnow().strftime("%Y-%m-%d %H:%M:%S"): the clock (seconds)
\* rendered as its date, hour, minute and second fields
strftime(now) ==
    <<now \div 86400, (now \div 3600) % 24, (now \div 60) % 60, now % 60>>

Sensor__init__ ==
    [timestamp_fmt |-> "%Y-%m-%d %H:%M:%S",
     measurement_interval |-> measurement_interval]

NoExc == Return(0)

compute_ambient_values(self) ==
    LET s1 == SetAttr(self, "ambient_temperature",
                      ambient_temperature(self["measured_temperature"]))
        s2 == SetAttr(s1, "ambient_pressure",
                      ambient_pressure(s1["measured_pressure"]))
        r  == ambient_humidity(s2["measured_humidity"],
                               s2["measured_temperature"],
                               s2["measured_pressure"],
                               s2["ambient_temperature"],
                               s2["ambient_pressure"])
    IN  IF r.ok
        THEN [self |-> SetAttr(s2, "ambient_humidity", r.value), exc |-> NoExc]
        ELSE [self |-> s2, exc |-> r]

\* update(): h, t, p are what the three sensor reads return, now the clock
update_no_upper_checks(self, h, t, p, now) ==
    LET s1 == SetAttr(self, "measured_humidity", h)
        s2 == SetAttr(s1, "measured_temperature", t)
        s3 == SetAttr(s2, "measured_pressure", p)
        s4 == SetAttr(s3, "timestamp", strftime(now))
    IN  IF ~(h >= HumidityMin)
        THEN [self |-> s1, exc |->
              Raise("Sensor.update: humidity < 0% received from sensor.")]
        ELSE IF ~(t >= TemperatureMin)
        THEN [self |-> s2, exc |->
              Raise("Sensor.update: temperature < 0 C received from sensor.")]
        ELSE IF ~(p >= PressureMin)
        THEN [self |-> s3, exc |->
              Raise("Sensor.update: pressure < 260 hPa received from sensor.")]
        ELSE compute_ambient_values(s4)

update(self, h, t, p, now) ==
    LET s1 == SetAttr(self, "measured_humidity", h)
        s2 == SetAttr(s1, "measured_temperature", t)
        s3 == SetAttr(s2, "measured_pressure", p)
        s4 == SetAttr(s3, "timestamp", strftime(now))
    IN  IF ~(h >= HumidityMin)
        THEN [self |-> s1, exc |->
              Raise("Sensor.update: humidity < 0% received from sensor.")]
        ELSE IF ~(h <= HumidityMax)
        THEN [self |-> s1, exc |->
              Raise("Sensor.update: humidity > 100% received from sensor.")]
        ELSE IF ~(t >= TemperatureMin)
        THEN [self |-> s2, exc |->
              Raise("Sensor.update: temperature < 0 C received from sensor.")]
        ELSE IF ~(t <= TemperatureMax)
        THEN [self |-> s2, exc |->
              Raise("Sensor.update: temperature > 65 C received from sensor.")]
        ELSE IF ~(p >= PressureMin)
        THEN [self |-> s3, exc |->
              Raise("Sensor.update: pressure < 260 hPa received from sensor.")]
        ELSE IF ~(p <= PressureMax)
        THEN [self |-> s3, exc |->
              Raise("Sensor.update: pressure > 1260 hPa received from sensor.")]
        ELSE compute_ambient_values(s4)

\* wait(): time.sleep(self.measurement_interval)
wait(self, now) == now + self["measurement_interval"]

\* ------------------------------------------------------------------------
\* class ClimateDB.  The sqlite file: the tables of its schema in creation
\* order and the rows of table ClimateRecord in insertion order.  It
\* outlives the process.
\* ------------------------------------------------------------------------
None == "<None>"
dbfile == "/home/pi/Documents/roomclimate.db"
EmptyStore == [schema |-> <<>>, rows |-> <<>>]

HasTable(store, name) == \E i \in DOMAIN store.schema : store.schema[i] = name

\* CREATE TABLE ClimateRecord (...): fails on an existing table
CreateTable(store, name) ==
    IF HasTable(store, name)
    THEN [store |-> store,
          exc |-> Raise("OperationalError: table ClimateRecord already exists")]
    ELSE [store |-> [store EXCEPT !.schema = Append(@, name)], exc |-> NoExc]

\* CREATE TABLE IF NOT EXISTS ClimateRecord (...)
CreateTableIfNotExists(store, name) ==
    IF HasTable(store, name)
    THEN [store |-> store, exc |-> NoExc]
    ELSE [store |-> [store EXCEPT !.schema = Append(@, name)], exc |-> NoExc]

ClimateDB__init__(store, file) ==
    IF ~(file # None)
    THEN [store |-> store,
          exc |-> Raise("ClimateDB: need path to database file.")]
    ELSE CreateTableIfNotExists(store, "ClimateRecord")

\* write(): the arguments are the str made by strftime and three floats, so
\* the four type assertions pass; INSERT, then commit
write_no_commit(store, timestamp, humidity, temperature, pressure) ==
    IF ~HasTable(store, "ClimateRecord")
    THEN [store |-> store,
          exc |-> Raise("OperationalError: no such table: ClimateRecord")]
    ELSE [store |-> store, exc |-> NoExc]

write(store, timestamp, humidity, temperature, pressure) ==
    LET values == [TimeStamp |-> timestamp, Humidity |-> humidity,
                   Temperature |-> temperature, Pressure |-> pressure]
    IN  IF ~HasTable(store, "ClimateRecord")
        THEN [store |-> store,
              exc |-> Raise("OperationalError: no such table: ClimateRecord")]
        ELSE [store |-> [store EXCEPT !.rows = Append(@, values)],
              exc |-> NoExc]

\* ------------------------------------------------------------------------
\* Bounds and inputs
\* ------------------------------------------------------------------------
MaxCycles == 2      \* update() calls per process / per Sensor instance
MaxRuns == 2        \* times the program is started

\* what the sensor returns to a Sensor instance driven call by call: an
\* ordinary reading with one quantity moved to or across a limit, and the
\* readings with all three quantities at or across their limits together
Ordinary     == <<4500, 32000, 1005000>>
Humidities   == {HumidityMin - 1, HumidityMin, HumidityMax, HumidityMax + 1}
Temperatures == {TemperatureMin - 1, TemperatureMin, BuckTempMax,
                 BuckTempMax + 1, TemperatureMax, TemperatureMax + 1}
Pressures    == {PressureMin - 1, PressureMin, PressureMax, PressureMax + 1}
Readings ==
    {Ordinary}
    \cup {<<h, Ordinary[2], Ordinary[3]>> : h \in Humidities}
    \cup {<<Ordinary[1], t, Ordinary[3]>> : t \in Temperatures}
    \cup {<<Ordinary[1], Ordinary[2], p>> : p \in Pressures}
    \cup {<<HumidityMin, TemperatureMin, PressureMin>>,
          <<HumidityMax, BuckTempMax, PressureMax>>,
          <<HumidityMax, TemperatureMax, PressureMax>>,
          <<HumidityMin - 1, TemperatureMin - 1, PressureMin - 1>>,
          <<HumidityMax + 1, TemperatureMax + 1, PressureMax + 1>>}

\* what the sensor returns in the main loop
LoopHumidities   == {4500, HumidityMax + 1}
LoopTemperatures == {TemperatureMin - 1, 32000, 55000}
LoopPressures    == {PressureMin - 1, PressureMin, 1005000}

\* arguments of buck_vapor_pressure called on its own
BuckPressures == {-1000, -1, 0, 1, PressureMin, 1013250, PressureMax, 6000000}
BuckTemperatures == {-240970, BuckTempMin - 1, BuckTempMin, BuckTempMin + 1,
                     -10000, 0, 25000, BuckTempMax - 1, BuckTempMax,
                     BuckTempMax + 1, TemperatureMax}

RecordFields == {"timestamp", "ambient_humidity", "ambient_temperature",
                 "ambient_pressure"}

\* the record an instance exposes: the record attributes assigned so far
Record(self) == [f \in RecordFields \cap DOMAIN self |-> self[f]]

InRange(r) ==
    /\ HumidityMin <= r[1] /\ r[1] <= HumidityMax
    /\ TemperatureMin <= r[2] /\ r[2] <= TemperatureMax
    /\ PressureMin <= r[3] /\ r[3] <= PressureMax

RangeMsgs ==
    {"Sensor.update: humidity < 0% received from sensor.",
     "Sensor.update: humidity > 100% received from sensor.",
     "Sensor.update: temperature < 0 C received from sensor.",
     "Sensor.update: temperature > 65 C received from sensor.",
     "Sensor.update: pressure < 260 hPa received from sensor.",
     "Sensor.update: pressure > 1260 hPa received from sensor."}

\* ------------------------------------------------------------------------
\* State
\* ------------------------------------------------------------------------
VARIABLES
    pc,       \* position of the main program / the last call made
    sensor,   \* the Sensor instance (ClimateMeas)
    clock,    \* system clock, seconds
    raw,      \* <<humidity, temperature, pressure>> the sensor last offered
    exc,      \* result of the last call that can raise (ok, or the exception)
    store,    \* the database file
    cycles,   \* update() calls made by this process / on this instance
    runs,     \* times the program was started
    done,     \* update() calls that completed without raising
    log,      \* history: reading and record of every completed update()
    arg,      \* argument of the last accessor / buck_vapor_pressure call
    res       \* its result

vars == <<pc, sensor, clock, raw, exc, store, cycles, runs, done, log, arg, res>>

\* ------------------------------------------------------------------------
\* The main program: Sensor(), ClimateDB(path), then the sampling loop
\* ------------------------------------------------------------------------
Init ==
    /\ pc = "db_init"
    /\ sensor = Sensor__init__
    /\ clock = 0
    /\ raw = <<0, 0, 0>>
    /\ exc = NoExc
    /\ store = EmptyStore
    /\ cycles = 0
    /\ runs = 1
    /\ done = 0
    /\ log = <<>>
    /\ arg = ""
    /\ res = NoExc

\* an exception leaving the loop body is caught nowhere: the process ends
AfterCall_swallowed(ok, next) == IF ok THEN next ELSE "wait"

AfterCall(ok, next) == IF ok THEN next ELSE "halted"

\* CliDB = ClimateDB("/home/pi/Documents/roomclimate.db")
DBInit ==
    /\ pc = "db_init"
    /\ LET r == ClimateDB__init__(store, dbfile)
       IN  /\ store' = r.store
           /\ exc' = r.exc
           /\ pc' = IF r.exc.ok THEN "update" ELSE "halted"
    /\ UNCHANGED <<sensor, clock, raw, cycles, runs, done, log, arg, res>>

\* ClimateMeas.update()
Update ==
    /\ pc = "update"
    /\ cycles < MaxCycles
    /\ \E h \in LoopHumidities, t \in LoopTemperatures, p \in LoopPressures :
         LET r == update(sensor, h, t, p, clock)
         IN  /\ sensor' = r.self
             /\ exc' = r.exc
             /\ raw' = <<h, t, p>>
             /\ pc' = AfterCall(r.exc.ok, "write")
             /\ done' = IF r.exc.ok THEN done + 1 ELSE done
             /\ log' = IF r.exc.ok
                       THEN Append(log, [raw |-> <<h, t, p>>, now |-> clock,
                                         record |-> Record(r.self)])
                       ELSE log
    /\ cycles' = cycles + 1
    /\ UNCHANGED <<clock, store, runs, arg, res>>

\* CliDB.write(ClimateMeas.timestamp, ClimateMeas.ambient_humidity, ...)
Write ==
    /\ pc = "write"
    /\ LET r == write(store, sensor["timestamp"], sensor["ambient_humidity"],
                      sensor["ambient_temperature"],
                      sensor["ambient_pressure"])
       IN  /\ store' = r.store
           /\ exc' = r.exc
           /\ pc' = AfterCall(r.exc.ok, "wait")
    /\ UNCHANGED <<sensor, clock, raw, cycles, runs, done, log, arg, res>>

\* ClimateMeas.wait()
Wait ==
    /\ pc = "wait"
    /\ clock' = wait(sensor, clock)
    /\ pc' = "update"
    /\ UNCHANGED <<sensor, raw, exc, store, cycles, runs, done, log, arg, res>>

\* the program is started again after it ended; the database file is kept
Restart ==
    /\ pc = "halted"
    /\ runs < MaxRuns
    /\ runs' = runs + 1
    /\ sensor' = Sensor__init__
    /\ exc' = NoExc
    /\ cycles' = 0
    /\ pc' = "db_init"
    /\ UNCHANGED <<clock, raw, store, done, log, arg, res>>

Next == DBInit \/ Update \/ Write \/ Wait \/ Restart

Spec == Init /\ [][Next]_vars

\* ------------------------------------------------------------------------
\* One Sensor instance driven call by call; the caller catches exceptions
\* ------------------------------------------------------------------------
SensorInit ==
    /\ pc = "Sensor()"
    /\ sensor = Sensor__init__
    /\ clock = 0
    /\ raw = <<0, 0, 0>>
    /\ exc = NoExc
    /\ store = EmptyStore
    /\ cycles = 0
    /\ runs = 1
    /\ done = 0
    /\ log = <<>>
    /\ arg = ""
    /\ res = NoExc

SensorUpdate ==
    /\ cycles < MaxCycles
    /\ \E reading \in Readings :
         LET r == update(sensor, reading[1], reading[2], reading[3], clock)
         IN  /\ sensor' = r.self
             /\ exc' = r.exc
             /\ raw' = reading
             /\ done' = IF r.exc.ok THEN done + 1 ELSE done
    /\ cycles' = cycles + 1
    /\ pc' = "update"
    /\ UNCHANGED <<clock, store, runs, log, arg, res>>

SensorGetAttr ==
    /\ \E name \in RecordFields :
         /\ arg' = name
         /\ res' = GetAttr(sensor, name)
    /\ pc' = "getattr"
    /\ UNCHANGED <<sensor, clock, raw, exc, store, cycles, runs, done, log>>

SensorWait ==
    /\ clock < MaxCycles * measurement_interval
    /\ clock' = wait(sensor, clock)
    /\ pc' = "wait"
    /\ UNCHANGED <<sensor, raw, exc, store, cycles, runs, done, log, arg, res>>

SensorNext == SensorUpdate \/ SensorGetAttr \/ SensorWait

SensorSpec == SensorInit /\ [][SensorNext]_vars

\* ------------------------------------------------------------------------
\* buck_vapor_pressure called on its own
\* ------------------------------------------------------------------------
BuckInit ==
    /\ pc = "buck_call"
    /\ sensor = Sensor__init__
    /\ clock = 0
    /\ raw = <<0, 0, 0>>
    /\ exc = NoExc
    /\ store = EmptyStore
    /\ cycles = 0
    /\ runs = 1
    /\ done = 0
    /\ log = <<>>
    /\ arg \in BuckPressures \X BuckTemperatures
    /\ res = NoExc

BuckCall ==
    /\ pc = "buck_call"
    /\ res' = buck_vapor_pressure(arg[1], arg[2])
    /\ pc' = "buck_done"
    /\ UNCHANGED <<sensor, clock, raw, exc, store, cycles, runs, done, log, arg>>

BuckNext == BuckCall

BuckSpec == BuckInit /\ [][BuckNext]_vars

\* ------------------------------------------------------------------------
\* Properties
\* ------------------------------------------------------------------------
LoopPcs == {"update", "write", "wait"}

RowOf(e) == [TimeStamp |-> e.record["timestamp"],
             Humidity |-> e.record["ambient_humidity"],
             Temperature |-> e.record["ambient_temperature"],
             Pressure |-> e.record["ambient_pressure"]]

\* C1 (as claimed): when update() raises in the main loop, control stays
\* in the loop, so that update() is invoked again for a following cycle.
C1_LoopContinues ==
    [][(pc = "update" /\ ~exc'.ok) => pc' \in LoopPcs]_vars

\* C1 (amended): when update() raises in the main loop the exception leaves
\* the loop and ends the process: nothing is written for that cycle, and
\* until the program is started again no update() is invoked and no row is
\* written.
C1_FailedCycleEndsLoop ==
    /\ [][(pc = "update" /\ ~exc'.ok) => (pc' = "halted" /\ store' = store)]_vars
    /\ [][pc = "halted" => (/\ pc' = "db_init"
                            /\ runs' = runs + 1
                            /\ store' = store
                            /\ done' = done)]_vars

C1_Witness ==
    /\ pc = "halted" /\ ~exc.ok
    /\ cycles < MaxCycles
    /\ Len(store.rows) >= 1

\* C2 (as claimed): whenever the three readings pass the range checks of
\* update(), update() raises nothing and stores the corrected record.
RecordStored ==
    /\ exc.ok
    /\ RecordFields \subseteq DOMAIN sensor
    /\ sensor["ambient_temperature"] = (a_fit * raw[2]) \div 10000 + b_fit
    /\ sensor["ambient_pressure"] = raw[3]
    /\ sensor["ambient_humidity"] =
         (raw[1] * buck_vapor_pressure(raw[3], raw[2]).value)
            \div buck_vapor_pressure(raw[3],
                                     sensor["ambient_temperature"]).value

C2_InRangeSucceeds ==
    (cycles > 0 /\ InRange(raw)) => RecordStored

\* C2 (amended): whenever the three readings pass the range checks and the
\* measured temperature is at most 50 C, update() raises nothing and stores
\* the corrected record; with a measured temperature above 50 C (up to 65 C)
\* the correction raises buck_vapor_pressure's "temperature above validity
\* range" from the inside-enclosure call and no ambient humidity is stored.
C2_InRangeSucceedsUpTo50 ==
    (cycles > 0 /\ InRange(raw)) =>
        IF raw[2] <= BuckTempMax
        THEN RecordStored
        ELSE /\ ~exc.ok
             /\ exc.error =
                  "buck_vapor_pressure: temperature above validity range"
             /\ exc.frame = "inside_vapor_pressure"

C2_Witness ==
    /\ cycles > 0
    /\ raw = <<HumidityMax, BuckTempMax, PressureMax>>
    /\ exc.ok
    /\ sensor["ambient_humidity"] > HumidityMax

\* C3: an update() whose sensor offers any reading outside its bounds raises
\* one of the six range assertions and leaves the record attributes
\* (timestamp and ambient values) as they were.
C3_OutOfRangeFails ==
    [][(cycles' = cycles + 1 /\ ~InRange(raw')) =>
          (/\ ~exc'.ok
           /\ exc'.error \in RangeMsgs
           /\ Record(sensor') = Record(sensor)
           /\ done' = done)]_vars

C3_Witness ==
    /\ cycles > 0 /\ ~InRange(raw)
    /\ exc.error \in RangeMsgs
    /\ done >= 1
    /\ RecordFields \subseteq DOMAIN sensor

\* C4: the store holds exactly one row per completed update(), in order,
\* carrying that cycle's timestamp and ambient values (the row of the cycle
\* in progress is still to be written while the loop is between update and
\* write); a failed cycle adds no row; stored rows never change.
C4_OneRowPerSuccessfulCycle ==
    /\ [](LET n == Len(store.rows)
          IN  /\ done = Len(log)
              /\ Len(log) = IF pc = "write" THEN n + 1 ELSE n
              /\ \A i \in 1..n :
                   /\ store.rows[i] = RowOf(log[i])
                   /\ store.rows[i].TimeStamp = strftime(log[i].now)
                   /\ store.rows[i].Temperature =
                        (a_fit * log[i].raw[2]) \div 10000 + b_fit)
    /\ [][/\ Len(store.rows') >= Len(store.rows)
          /\ \A i \in 1..Len(store.rows) : store.rows'[i] = store.rows[i]
          /\ (~exc'.ok => store' = store)]_vars

C4_Witness ==
    /\ pc = "halted" /\ ~exc.ok
    /\ Len(store.rows) = 2
    /\ store.rows[1] # store.rows[2]

\* C5: while no update() has completed, reading timestamp, ambient_humidity,
\* ambient_temperature or ambient_pressure raises (AttributeError), also
\* after update() calls that failed.
C5_NotReadableBeforeSuccess ==
    done = 0 =>
        /\ \A f \in RecordFields : ~GetAttr(sensor, f).ok
        /\ (pc = "getattr" => (~res.ok /\ res.error = "AttributeError"))

\* C6: the ambient pressure of every record update() produced, and of every
\* stored row, is the raw pressure the sensor returned in that cycle.
C6_PressureIsRaw ==
    /\ \A i \in DOMAIN log :
         log[i].record["ambient_pressure"] = log[i].raw[3]
    /\ \A i \in DOMAIN store.rows :
         store.rows[i].Pressure = log[i].raw[3]
    /\ (pc = "write" => sensor["ambient_pressure"] = raw[3])

C6_Witness ==
    /\ Len(store.rows) = 2
    /\ store.rows[1].Pressure = PressureMin
    /\ store.rows[2].Pressure # PressureMin

\* C7: buck_vapor_pressure raises its input assertion whenever
\* air_pressure <= 0 or temperature < -20 or temperature > 50 (it never
\* answers for a clamped input), and returns a positive value for every
\* other input.
BuckInputMsgs ==
    {"buck_vapor_pressure: negative input air pressure",
     "buck_vapor_pressure: temperature below validity range",
     "buck_vapor_pressure: temperature above validity range"}

C7_BuckRejectsOutsideRange ==
    pc = "buck_done" =>
        IF arg[1] <= 0 \/ arg[2] < BuckTempMin \/ arg[2] > BuckTempMax
        THEN ~res.ok /\ res.error \in BuckInputMsgs
        ELSE res.ok /\ res.value > 0

C7_Witness ==
    /\ pc = "buck_done"
    /\ arg[1] > 0 /\ arg[2] = BuckTempMax + 1
    /\ ~res.ok

\* C8: constructing ClimateDB on a store that already has table
\* ClimateRecord raises nothing, leaves schema and rows as they are, and
\* the schema never holds the table twice.
C8_SchemaCreationIdempotent ==
    /\ [][(pc = "db_init" /\ HasTable(store, "ClimateRecord")) =>
             (exc'.ok /\ pc' = "update" /\ store' = store)]_vars
    /\ [](Cardinality({i \in DOMAIN store.schema :
                         store.schema[i] = "ClimateRecord"}) <= 1)

C8_Witness ==
    /\ runs = 2 /\ pc = "update" /\ cycles = 0
    /\ Len(store.rows) >= 1
    /\ HasTable(store, "ClimateRecord")

\* C9: an update() that raises, made after one that completed, leaves
\* timestamp, ambient_temperature, ambient_pressure and ambient_humidity
\* exactly as they were.
C9_FailedUpdateKeepsRecord ==
    [][(cycles' = cycles + 1 /\ done >= 1 /\ ~exc'.ok) =>
          Record(sensor') = Record(sensor)]_vars

\* C10: for every reading that passes the range checks of update(), the
\* ambient temperature lies in [-20, 50] C and strictly below the measured
\* temperature, and the ambient-side call of buck_vapor_pressure does not
\* raise.
C10_AmbientTemperatureInBuckRange ==
    (cycles > 0 /\ InRange(raw)) =>
        /\ "ambient_temperature" \in DOMAIN sensor
        /\ BuckTempMin <= sensor["ambient_temperature"]
        /\ sensor["ambient_temperature"] <= BuckTempMax
        /\ sensor["ambient_temperature"] < raw[2]
        /\ exc.frame # "ambient_vapor_pressure"

C10_Witness ==
    /\ cycles > 0 /\ InRange(raw)
    /\ raw[2] = TemperatureMin
    /\ exc.ok
    /\ sensor["ambient_temperature"] = b_fit

====
